---- MODULE Spec2Model ----
(***************************************************************************)
(* Model of pkg/bench/benchmark.go: the concurrent bulk-deletion pipeline  *)
(* Common.deleteAllInBucket (one goroutine per prefix, a bounded delivery  *)
(* queue `remove`, an asynchronous completion channel `errCh`, a stall     *)
(* watchdog) and the best-effort progress reporter Common.prepareProgress. *)
(*                                                                         *)
(* The storage client (minio.Client.ListObjects / RemoveObjects) is an     *)
(* external collaborator.  It is modelled as an environment that is free   *)
(* to choose batch boundaries, which deletes fail, when listing entries    *)
(* carry errors, and how slowly it accepts identities.  The completion     *)
(* channel is modelled unbuffered: a backend with an outcome to deliver is *)
(* blocked until the worker receives it.                                   *)
(***************************************************************************)
EXTENDS Integers, Sequences, FiniteSets, TLC

\* ------------------------------------------------------------------ bounds

\* Number of worker slots (the longest prefix list tried).
MaxWorkers == 2
\* Listing entries carrying an error that one listing may deliver.
MaxListErrs == 1
\* Reports of the zero value read from a closed errCh that are counted
\* (the count saturates: the worker can repeat that receive for ever).
MaxZeroReports == 1
\* Capacity of the delivery queue in the bounded-queue scenario.
TestCap == 1
\* Time points of a run at which the Analyzer may evaluate.
MaxElapsed == 3
\* Operations a benchmark run may return from Start.
MaxOps == 2
\* Calls of prepareProgress in one run.
MaxCalls == 2
\* Finite progress values are multiples of 1/Unit; Unit stands for 1.0.
Unit == 2

\* ------------------------------------------------------- program constants

\* remove := make(chan minio.ObjectInfo, 100)
removeCap == 100

\* Split active ops into this many segments.
autoTermSamples == 25

\* Mutants of autoTermCheck: the trailing window is one segment too long, or
\* one too short.
autoTermCheckLong == 7 + 1
autoTermCheckShort == 7 - 1

\* Number of segments that must be within limit.
\* The last segment will be the one considered 'current speed'.
autoTermCheck == 7

\* ---------------------------------------------------------------- the data

Workers == 1..MaxWorkers

\* The bucket's content when the call starts: 3 objects under "a/" and "b/".
ObjA1 == [Key |-> "a/1", VersionID |-> "v1"]
ObjA2 == [Key |-> "a/2", VersionID |-> "v2"]
ObjB1 == [Key |-> "b/1", VersionID |-> "v1"]
BucketSeq == <<ObjA1, ObjA2, ObjB1>>
BucketInit == {BucketSeq[i] : i \in 1..Len(BucketSeq)}

\* The directory part of a key (keys are opaque strings for TLC).
Dir(key) == CASE key = "a/1" -> "a/"
              [] key = "a/2" -> "a/"
              [] key = "b/1" -> "b/"
              [] OTHER -> ""

\* strings.HasPrefix(key, prefix) for the prefixes used here.
HasPrefix(key, prefix) == prefix = "" \/ Dir(key) = prefix

\* The argument lists deleteAllInBucket is called with.
ArgChoices == { <<>>, <<"">>, <<"a/">>, <<"a/", "b/">> }

\* A listing entry (minio.ObjectInfo as read from `objects`).
ListEntry(o) == [Key |-> o.Key, VersionID |-> o.VersionID, Err |-> FALSE]
ListErrEntry == [Key |-> "", VersionID |-> "", Err |-> TRUE]

\* A completion outcome (minio.RemoveObjectError) and its zero value, which
\* is what a receive from the closed errCh yields.
DelError(o) == [ObjectName |-> o.Key, Err |-> TRUE]
ZeroError == [ObjectName |-> "", Err |-> FALSE]

Min2(a, b) == IF a < b THEN a ELSE b

VARIABLES
  args,         \* the prefixes argument of the call
  prefixes,     \* prefixes after the len(prefixes) == 0 default
  qcap,         \* capacity of each delivery queue
  pcMain,       \* "entry" | "wait" | "returned"
  wg,           \* sync.WaitGroup counter
  finished,     \* TRUE once the finished channel is closed
  wd,           \* watchdog goroutine: "idle" | "waiting" | "dumped" | "exited"
  cancelled,    \* ctx is cancelled
  pc,           \* worker w's position
  cur,          \* the identity worker w is sending in sendNext
  listing,      \* objects the listing of worker w has still to deliver
  listErrLeft,  \* error entries the listing of worker w may still deliver
  remove,       \* content of worker w's delivery queue
  removeClosed, \* close(remove) was executed
  closes,       \* number of close(remove) executed by worker w
  acq,          \* handles worker w acquired from Client()
  rel,          \* release functions worker w called
  bpc,          \* backend of worker w: "none" | "collect" | "emit" | "done"
  batch,        \* identities the backend accepted and has not yet processed
  pending,      \* outcomes the backend is delivering on errCh, in order
  bucket,       \* objects still stored
  failedDel,    \* objects whose delete the backend failed
  listReports,  \* console.Error calls for listing errors, per worker
  delReports,   \* console.Error calls for delete errors, per worker
  zeroReports,  \* console.Error calls for the zero value of a closed errCh
  enq,          \* identities worker w enqueued, in order
  sink,         \* c.PrepareProgress: "nil" | "chan"
  pcap,         \* capacity of the progress channel
  pbuf,         \* samples buffered in the progress channel
  recvWaiting,  \* the observer is blocked receiving from the progress channel
  ppc,          \* prepareProgress: "idle" | "check" | "select"
  pin,          \* the argument of the running prepareProgress call
  progress,     \* the local variable progress after line 159
  calls,        \* calls of prepareProgress made
  delivered,    \* samples the observer received, each with the call's input
  dropped,      \* samples taken by the default case
  segs,         \* Analyzer: throughput of each of the autoTermSamples segments
  elapsed,      \* Analyzer: active time elapsed in the run
  atDur,        \* c.AutoTermDur
  atScale,      \* c.AutoTermScale, a rational <<numerator, denominator>>
  lastCheck,    \* Analyzer: elapsed time of its latest evaluation, -1 if none
  stopped,      \* Analyzer: the stop signal was emitted
  speed,        \* Analyzer: the reported current speed
  ost,          \* Orchestrator: state of the run
  prepares,     \* Orchestrator: Prepare calls made
  starts,       \* Orchestrator: Start calls made
  cleanups,     \* Orchestrator: Cleanup calls made
  cleanupFailed,\* Orchestrator: Cleanup met an error (logged)
  result,       \* Orchestrator: "none" | "success" | "failure"
  clear,        \* c.Clear: clear prefix after benchmark
  clientMode,   \* c.ClientMode: the start signal comes from a coordinator
  startSignal,  \* Orchestrator: the wait channel given to Start is closed
  cleaning,     \* Orchestrator: Cleanup was called and has not returned
  pipelineRuns, \* Orchestrator: runs of the deletion pipeline made by Cleanup
  ops           \* Orchestrator: size of the Operations Start returned

dvars == <<args, prefixes, qcap, pcMain, wg, finished, wd, cancelled, pc, cur,
           listing, listErrLeft, remove, removeClosed, closes, acq, rel, bpc,
           batch, pending, bucket, failedDel, listReports, delReports,
           zeroReports, enq>>
pvars == <<sink, pcap, pbuf, recvWaiting, ppc, pin, progress, calls,
           delivered, dropped>>
avars == <<segs, elapsed, atDur, atScale, lastCheck, stopped, speed>>
ovars == <<ost, prepares, starts, cleanups, cleanupFailed, result,
          clear, clientMode, startSignal, cleaning, pipelineRuns, ops>>
vars == <<dvars, pvars, avars, ovars>>

mainVars == <<args, prefixes, qcap, pcMain, wg, finished>>
workerVars == <<pc, cur, listing, listErrLeft, remove, removeClosed, closes,
                acq, rel, listReports, delReports, zeroReports, enq>>
backendVars == <<bpc, batch, pending, bucket, failedDel>>

\* --------------------------------------------------------------- the floats

NaN == [k |-> "nan", n |-> 0]
PosInf == [k |-> "inf", n |-> 1]
NegInf == [k |-> "inf", n |-> -1]
Fin(n) == [k |-> "fin", n |-> n]
Floats == {Fin(n) : n \in (0 - 2 * Unit)..(2 * Unit)} \cup {NaN, PosInf, NegInf}

IsNaN(x) == x.k = "nan"
IsInf(x, sign) == x.k = "inf" /\ x.n = sign
\* x < y on floats; every comparison with NaN is false.
FLess(x, y) ==
  /\ ~IsNaN(x) /\ ~IsNaN(y)
  /\ \/ IsInf(x, -1) /\ ~IsInf(y, -1)
     \/ IsInf(y, 1) /\ ~IsInf(x, 1)
     \/ x.k = "fin" /\ y.k = "fin" /\ x.n < y.n

\* math.Min: Min(x, -Inf) = Min(-Inf, x) = -Inf; Min(x, NaN) = Min(NaN, x) = NaN.
mathMin(x, y) ==
  IF IsInf(x, -1) \/ IsInf(y, -1) THEN NegInf
  ELSE IF IsNaN(x) \/ IsNaN(y) THEN NaN
  ELSE IF FLess(x, y) THEN x ELSE y

\* math.Max: Max(x, +Inf) = Max(+Inf, x) = +Inf; Max(x, NaN) = Max(NaN, x) = NaN.
mathMax(x, y) ==
  IF IsInf(x, 1) \/ IsInf(y, 1) THEN PosInf
  ELSE IF IsNaN(x) \/ IsNaN(y) THEN NaN
  ELSE IF FLess(y, x) THEN x ELSE y

\* progress = math.Max(0, math.Min(1, progress))
Clamp(v) == mathMax(Fin(0), mathMin(Fin(Unit), v))

\* ------------------------------------------------------------ initial state

\* No call of deleteAllInBucket yet: no goroutine, no channel, no handle.
DIdle ==
  /\ prefixes = <<>>
  /\ pcMain = "entry"
  /\ wg = 0
  /\ finished = FALSE
  /\ wd = "idle"
  /\ cancelled = FALSE
  /\ pc = [w \in Workers |-> "none"]
  /\ cur = [w \in Workers |-> <<>>]
  /\ listing = [w \in Workers |-> <<>>]
  /\ listErrLeft = [w \in Workers |-> 0]
  /\ remove = [w \in Workers |-> <<>>]
  /\ removeClosed = [w \in Workers |-> FALSE]
  /\ closes = [w \in Workers |-> 0]
  /\ acq = [w \in Workers |-> 0]
  /\ rel = [w \in Workers |-> 0]
  /\ bpc = [w \in Workers |-> "none"]
  /\ batch = [w \in Workers |-> <<>>]
  /\ pending = [w \in Workers |-> <<>>]
  /\ bucket = BucketInit
  /\ failedDel = {}
  /\ listReports = [w \in Workers |-> 0]
  /\ delReports = [w \in Workers |-> 0]
  /\ zeroReports = [w \in Workers |-> 0]
  /\ enq = [w \in Workers |-> <<>>]

\* No call of prepareProgress yet.
PIdle ==
  /\ pbuf = <<>>
  /\ recvWaiting = FALSE
  /\ ppc = "idle"
  /\ pin = Fin(0)
  /\ progress = Fin(0)
  /\ calls = 0
  /\ delivered = <<>>
  /\ dropped = 0

\* The Analyzer is not running: auto-termination is unset.
AIdle ==
  /\ segs = <<>>
  /\ elapsed = 0
  /\ atDur = 0
  /\ atScale = <<0, 1>>
  /\ lastCheck = -1
  /\ stopped = FALSE
  /\ speed = 0

\* No benchmark run is being driven.
OIdle ==
  /\ ost = "Idle"
  /\ prepares = 0
  /\ starts = 0
  /\ cleanups = 0
  /\ cleanupFailed = FALSE
  /\ result = "none"
  /\ clear = FALSE
  /\ clientMode = FALSE
  /\ startSignal = FALSE
  /\ cleaning = FALSE
  /\ pipelineRuns = 0
  /\ ops = 0

\* The deletion pipeline: any argument list, the code's queue capacity or the
\* bounded-queue scenario's; progress reporting is not configured.
Init ==
  /\ DIdle
  /\ args \in ArgChoices
  /\ qcap \in {TestCap, removeCap}
  /\ PIdle
  /\ sink = "nil"
  /\ pcap = 0
  /\ AIdle
  /\ OIdle

\* ------------------------------------------- deleteAllInBucket, the caller

\* Mutant of DefaultPrefixes: the default for an empty argument list is lost.
NoDefaultPrefixes(a) == a

\* if len(prefixes) == 0 { prefixes = []string{""} }
DefaultPrefixes(a) == IF Len(a) = 0 THEN <<"">> ELSE a

\* Lines 86-101 for the argument list a: default the prefixes, make
\* `finished`, start the watchdog, wg.Add(len(prefixes)) and start one
\* goroutine per prefix.
EnterWith(a) ==
  /\ pcMain = "entry"
  /\ prefixes' = DefaultPrefixes(a)
  /\ wg' = Len(prefixes')
  /\ wd' = "waiting"
  /\ pc' = [w \in Workers |-> IF w <= Len(prefixes') THEN "start" ELSE "none"]
  /\ pcMain' = "wait"
  /\ UNCHANGED <<args, qcap, finished, cancelled, cur, listing, listErrLeft,
                 remove, removeClosed, closes, acq, rel, listReports,
                 delReports, zeroReports, enq>>
  /\ UNCHANGED backendVars
  /\ UNCHANGED <<pvars, avars, ovars>>

\* deleteAllInBucket(ctx, bucket, args...) is called.
Enter == EnterWith(args)

\* Lines 150-152 and the deferred close(finished): wg.Wait() returns once the
\* counter is zero, then the call returns.
Return ==
  /\ pcMain = "wait"
  /\ wg = 0
  /\ finished' = TRUE
  /\ pcMain' = "returned"
  /\ UNCHANGED <<args, prefixes, qcap, wg, wd, cancelled>>
  /\ UNCHANGED workerVars
  /\ UNCHANGED backendVars
  /\ UNCHANGED <<pvars, avars, ovars>>

\* The caller's context is cancelled while the call is running.
Cancel ==
  /\ pcMain = "wait"
  /\ ~cancelled
  /\ cancelled' = TRUE
  /\ UNCHANGED <<mainVars, wd>>
  /\ UNCHANGED workerVars
  /\ UNCHANGED backendVars
  /\ UNCHANGED <<pvars, avars, ovars>>

\* ------------------------------------------------------------ the watchdog

\* Mutant of WatchdogFire: the watchdog aborts the operation it watches.
WatchdogFireCancels ==
  /\ wd = "waiting"
  /\ wd' = "dumped"
  /\ cancelled' = TRUE
  /\ UNCHANGED mainVars
  /\ UNCHANGED workerVars
  /\ UNCHANGED backendVars
  /\ UNCHANGED <<pvars, avars, ovars>>

\* case <-time.After(time.Minute): pprof.Lookup("goroutine").WriteTo(...)
WatchdogFire ==
  /\ wd = "waiting"
  /\ wd' = "dumped"
  /\ UNCHANGED <<mainVars, cancelled>>
  /\ UNCHANGED workerVars
  /\ UNCHANGED backendVars
  /\ UNCHANGED <<pvars, avars, ovars>>

\* case <-finished: return
WatchdogFinished ==
  /\ wd = "waiting"
  /\ finished
  /\ wd' = "exited"
  /\ UNCHANGED <<mainVars, cancelled>>
  /\ UNCHANGED workerVars
  /\ UNCHANGED backendVars
  /\ UNCHANGED <<pvars, avars, ovars>>

\* ------------------------------------------------------------- the workers

\* The objects ListObjects(Prefix: prefix, Recursive, WithVersions) lists.
ListObjects(prefix) ==
  SelectSeq(BucketSeq, LAMBDA o : o \in bucket /\ HasPrefix(o.Key, prefix))

\* Lines 105-121: acquire the handle, make `remove`, start RemoveObjects,
\* register the deferred calls and open the listing.
WStart(w) ==
  /\ pc[w] = "start"
  /\ acq' = [acq EXCEPT ![w] = @ + 1]
  /\ bpc' = [bpc EXCEPT ![w] = "collect"]
  /\ listing' = [listing EXCEPT ![w] = ListObjects(prefixes[w])]
  /\ listErrLeft' = [listErrLeft EXCEPT ![w] = MaxListErrs]
  /\ pc' = [pc EXCEPT ![w] = "loop"]
  /\ UNCHANGED <<mainVars, wd, cancelled, cur, remove, removeClosed, closes,
                 rel, batch, pending, bucket, failedDel, listReports,
                 delReports, zeroReports, enq>>
  /\ UNCHANGED <<pvars, avars, ovars>>

\* errCh has an outcome to receive: the backend is blocked sending it.
ErrReady(w) == bpc[w] = "emit"
\* errCh is closed.
ErrClosed(w) == bpc[w] = "done"

\* case err := <-errCh: console.Error(err), in either loop.  A closed errCh
\* yields the zero value, which is reported like any other.
RecvErr(w) ==
  \/ /\ ErrReady(w)
     /\ pending' = [pending EXCEPT ![w] = Tail(@)]
     /\ bpc' = [bpc EXCEPT ![w] = IF Tail(pending[w]) = <<>> THEN "collect" ELSE "emit"]
     /\ delReports' = [delReports EXCEPT ![w] = @ + 1]
     /\ UNCHANGED zeroReports
  \/ /\ ErrClosed(w)
     /\ zeroReports' = [zeroReports EXCEPT ![w] = Min2(@ + 1, MaxZeroReports)]
     /\ UNCHANGED <<pending, bpc, delReports>>

\* Mutant of OnListErr: a listing error ends the worker's loop.
OnListErrAbort(w) ==
  /\ listReports' = [listReports EXCEPT ![w] = @ + 1]
  /\ pc' = [pc EXCEPT ![w] = "closeRemove"]
  /\ UNCHANGED <<cur, listing>>

\* Lines 128-131: if obj.Err != nil { console.Error(obj.Err); continue }
OnListErr(w) ==
  /\ listReports' = [listReports EXCEPT ![w] = @ + 1]
  /\ pc' = [pc EXCEPT ![w] = "loop"]
  /\ UNCHANGED <<cur, listing>>

\* Lines 124-131: case obj, ok := <-objects.  The listing delivers its next
\* object, an entry carrying an error, or is closed (when it is exhausted, or
\* early once ctx is cancelled).
WRecvObj(w) ==
  /\ pc[w] = "loop"
  /\ \/ /\ listing[w] # <<>>
        /\ cur' = [cur EXCEPT ![w] =
                     <<[Key |-> ListEntry(Head(listing[w])).Key,
                        VersionID |-> ListEntry(Head(listing[w])).VersionID]>>]
        /\ listing' = [listing EXCEPT ![w] = Tail(@)]
        /\ pc' = [pc EXCEPT ![w] = "sendNext"]
        /\ UNCHANGED <<listErrLeft, listReports>>
     \/ /\ listErrLeft[w] > 0
        /\ ListErrEntry.Err
        /\ listErrLeft' = [listErrLeft EXCEPT ![w] = @ - 1]
        /\ OnListErr(w)
     \/ /\ listing[w] = <<>> \/ cancelled
        /\ pc' = [pc EXCEPT ![w] = "closeRemove"]
        /\ UNCHANGED <<cur, listing, listErrLeft, listReports>>
  /\ UNCHANGED <<mainVars, wd, cancelled, remove, removeClosed, closes, acq,
                 rel, delReports, zeroReports, enq>>
  /\ UNCHANGED backendVars
  /\ UNCHANGED <<pvars, avars, ovars>>

\* Lines 144-145: case err := <-errCh in the outer select.
WRecvErrLoop(w) ==
  /\ pc[w] = "loop"
  /\ RecvErr(w)
  /\ UNCHANGED <<mainVars, wd, cancelled, pc, cur, listing, listErrLeft,
                 remove, removeClosed, closes, acq, rel, listReports, enq,
                 batch, bucket, failedDel>>
  /\ UNCHANGED <<pvars, avars, ovars>>

\* Mutant of WSend: the identity is enqueued without its version.
WSendDropsVersion(w) ==
  /\ pc[w] = "sendNext"
  /\ Len(remove[w]) < qcap
  /\ remove' = [remove EXCEPT ![w] = Append(@, [cur[w][1] EXCEPT !.VersionID = ""])]
  /\ enq' = [enq EXCEPT ![w] = Append(@, [cur[w][1] EXCEPT !.VersionID = ""])]
  /\ cur' = [cur EXCEPT ![w] = <<>>]
  /\ pc' = [pc EXCEPT ![w] = "loop"]
  /\ UNCHANGED <<mainVars, wd, cancelled, listing, listErrLeft, removeClosed,
                 closes, acq, rel, listReports, delReports, zeroReports>>
  /\ UNCHANGED backendVars
  /\ UNCHANGED <<pvars, avars, ovars>>

\* Mutant of WSend: the send does not wait for room in the queue.
WSendUnbounded(w) ==
  /\ pc[w] = "sendNext"
  /\ remove' = [remove EXCEPT ![w] = Append(@, cur[w][1])]
  /\ enq' = [enq EXCEPT ![w] = Append(@, cur[w][1])]
  /\ cur' = [cur EXCEPT ![w] = <<>>]
  /\ pc' = [pc EXCEPT ![w] = "loop"]
  /\ UNCHANGED <<mainVars, wd, cancelled, listing, listErrLeft, removeClosed,
                 closes, acq, rel, listReports, delReports, zeroReports>>
  /\ UNCHANGED backendVars
  /\ UNCHANGED <<pvars, avars, ovars>>

\* Lines 135-139: case remove <- minio.ObjectInfo{Key, VersionID}: break sendNext
WSend(w) ==
  /\ pc[w] = "sendNext"
  /\ Len(remove[w]) < qcap
  /\ remove' = [remove EXCEPT ![w] = Append(@, cur[w][1])]
  /\ enq' = [enq EXCEPT ![w] = Append(@, cur[w][1])]
  /\ cur' = [cur EXCEPT ![w] = <<>>]
  /\ pc' = [pc EXCEPT ![w] = "loop"]
  /\ UNCHANGED <<mainVars, wd, cancelled, listing, listErrLeft, removeClosed,
                 closes, acq, rel, listReports, delReports, zeroReports>>
  /\ UNCHANGED backendVars
  /\ UNCHANGED <<pvars, avars, ovars>>

\* Mutant of WRecvErrSend: the send loop waits on the delivery queue alone.
WRecvErrSendMissing(w) ==
  /\ FALSE
  /\ UNCHANGED vars

\* Mutant of WRecvErrSend: after servicing a completion the worker goes back
\* to the listing, giving up the identity it was sending.
WRecvErrSendAbandons(w) ==
  /\ pc[w] = "sendNext"
  /\ RecvErr(w)
  /\ pc' = [pc EXCEPT ![w] = "loop"]
  /\ cur' = [cur EXCEPT ![w] = <<>>]
  /\ UNCHANGED <<mainVars, wd, cancelled, listing, listErrLeft,
                 remove, removeClosed, closes, acq, rel, listReports, enq,
                 batch, bucket, failedDel>>
  /\ UNCHANGED <<pvars, avars, ovars>>

\* Lines 140-141: case err := <-errCh in the sendNext select.
WRecvErrSend(w) ==
  /\ pc[w] = "sendNext"
  /\ RecvErr(w)
  /\ UNCHANGED <<mainVars, wd, cancelled, pc, cur, listing, listErrLeft,
                 remove, removeClosed, closes, acq, rel, listReports, enq,
                 batch, bucket, failedDel>>
  /\ UNCHANGED <<pvars, avars, ovars>>

\* Line 113, first half of the deferred function: close(remove).
WCloseRemove(w) ==
  /\ pc[w] = "closeRemove"
  /\ removeClosed' = [removeClosed EXCEPT ![w] = TRUE]
  /\ closes' = [closes EXCEPT ![w] = @ + 1]
  /\ pc' = [pc EXCEPT ![w] = "waitErr"]
  /\ UNCHANGED <<mainVars, wd, cancelled, cur, listing, listErrLeft, remove,
                 acq, rel, listReports, delReports, zeroReports, enq>>
  /\ UNCHANGED backendVars
  /\ UNCHANGED <<pvars, avars, ovars>>

\* Lines 115-118: err := <-errCh; if err.Err != nil { console.Error(err.Err) }.
\* One receive: an outcome, or the zero value of the closed channel.
WWaitErr(w) ==
  /\ pc[w] = "waitErr"
  /\ \/ /\ ErrReady(w)
        /\ pending' = [pending EXCEPT ![w] = Tail(@)]
        /\ bpc' = [bpc EXCEPT ![w] = IF Tail(pending[w]) = <<>> THEN "collect" ELSE "emit"]
        /\ delReports' = [delReports EXCEPT ![w] =
                            IF Head(pending[w]).Err THEN @ + 1 ELSE @]
     \/ /\ ErrClosed(w)
        /\ ~ZeroError.Err
        /\ UNCHANGED <<pending, bpc, delReports>>
  /\ pc' = [pc EXCEPT ![w] = "release"]
  /\ UNCHANGED <<mainVars, wd, cancelled, cur, listing, listErrLeft, remove,
                 removeClosed, closes, acq, rel, listReports, zeroReports,
                 enq, batch, bucket, failedDel>>
  /\ UNCHANGED <<pvars, avars, ovars>>

\* Mutant of WRelease: the release function is not called.
WReleaseSkipped(w) ==
  /\ pc[w] = "release"
  /\ pc' = [pc EXCEPT ![w] = "wgDone"]
  /\ UNCHANGED <<mainVars, wd, cancelled, cur, listing, listErrLeft, remove,
                 removeClosed, closes, acq, rel, listReports, delReports,
                 zeroReports, enq>>
  /\ UNCHANGED backendVars
  /\ UNCHANGED <<pvars, avars, ovars>>

\* Line 108: defer done(), the handle's release function.
WRelease(w) ==
  /\ pc[w] = "release"
  /\ rel' = [rel EXCEPT ![w] = @ + 1]
  /\ pc' = [pc EXCEPT ![w] = "wgDone"]
  /\ UNCHANGED <<mainVars, wd, cancelled, cur, listing, listErrLeft, remove,
                 removeClosed, closes, acq, listReports, delReports,
                 zeroReports, enq>>
  /\ UNCHANGED backendVars
  /\ UNCHANGED <<pvars, avars, ovars>>

\* Lines 103-106: defer close(doneCh), then defer wg.Done().
WDone(w) ==
  /\ pc[w] = "wgDone"
  /\ wg' = wg - 1
  /\ pc' = [pc EXCEPT ![w] = "exit"]
  /\ UNCHANGED <<args, prefixes, qcap, pcMain, finished, wd, cancelled, cur,
                 listing, listErrLeft, remove, removeClosed, closes, acq, rel,
                 listReports, delReports, zeroReports, enq>>
  /\ UNCHANGED backendVars
  /\ UNCHANGED <<pvars, avars, ovars>>

Worker(w) ==
  \/ WStart(w)
  \/ WRecvObj(w)
  \/ WRecvErrLoop(w)
  \/ WSend(w)
  \/ WRecvErrSend(w)
  \/ WCloseRemove(w)
  \/ WWaitErr(w)
  \/ WRelease(w)
  \/ WDone(w)

\* ------------------------------------ the backend behind RemoveObjects

\* The backend takes the next identity off the delivery queue.
BackendAccept(w) ==
  /\ bpc[w] = "collect"
  /\ remove[w] # <<>>
  /\ batch' = [batch EXCEPT ![w] = Append(@, Head(remove[w]))]
  /\ remove' = [remove EXCEPT ![w] = Tail(@)]
  /\ UNCHANGED <<mainVars, wd, cancelled, pc, cur, listing, listErrLeft,
                 removeClosed, closes, acq, rel, listReports, delReports,
                 zeroReports, enq, bpc, pending, bucket, failedDel>>
  /\ UNCHANGED <<pvars, avars, ovars>>

\* The failed deletes of a batch, in batch order, as completion outcomes.
Outcomes(b, fails) ==
  LET F[i \in 0..Len(b)] ==
        IF i = 0 THEN <<>>
        ELSE IF i \in fails THEN Append(F[i - 1], DelError(b[i])) ELSE F[i - 1]
  IN F[Len(b)]

\* The backend processes its batch: each delete succeeds (the object is gone)
\* or fails (an outcome to deliver on errCh).
BackendFlush(w) ==
  /\ bpc[w] = "collect"
  /\ batch[w] # <<>>
  /\ \E fails \in SUBSET (1..Len(batch[w])) :
       /\ bucket' = bucket \ {batch[w][i] : i \in (1..Len(batch[w])) \ fails}
       /\ failedDel' = failedDel \cup {batch[w][i] : i \in fails}
       /\ pending' = [pending EXCEPT ![w] = Outcomes(batch[w], fails)]
       /\ bpc' = [bpc EXCEPT ![w] = IF fails = {} THEN "collect" ELSE "emit"]
  /\ batch' = [batch EXCEPT ![w] = <<>>]
  /\ UNCHANGED <<mainVars, wd, cancelled>>
  /\ UNCHANGED workerVars
  /\ UNCHANGED <<pvars, avars, ovars>>

\* The delivery queue is closed and drained and every outcome is delivered:
\* the backend closes errCh.
BackendClose(w) ==
  /\ bpc[w] = "collect"
  /\ removeClosed[w]
  /\ remove[w] = <<>>
  /\ batch[w] = <<>>
  /\ bpc' = [bpc EXCEPT ![w] = "done"]
  /\ UNCHANGED <<mainVars, wd, cancelled, batch, pending, bucket, failedDel>>
  /\ UNCHANGED workerVars
  /\ UNCHANGED <<pvars, avars, ovars>>

\* ctx is cancelled: the backend gives up, consumes nothing more, drops what
\* it held and closes errCh on its way out.
BackendStop(w) ==
  /\ cancelled
  /\ bpc[w] \in {"collect", "emit"}
  /\ bpc' = [bpc EXCEPT ![w] = "done"]
  /\ batch' = [batch EXCEPT ![w] = <<>>]
  /\ pending' = [pending EXCEPT ![w] = <<>>]
  /\ UNCHANGED <<mainVars, wd, cancelled, bucket, failedDel>>
  /\ UNCHANGED workerVars
  /\ UNCHANGED <<pvars, avars, ovars>>

Backend(w) ==
  \/ BackendAccept(w)
  \/ BackendFlush(w)
  \/ BackendClose(w)

\* ---------------------------------------------------------- specifications

\* The pipeline with a backend that never gives up (ctx is not cancelled).
NextNC ==
  \/ Enter
  \/ Return
  \/ WatchdogFire
  \/ WatchdogFinished
  \/ \E w \in Workers : Worker(w)
  \/ \E w \in Workers : Backend(w)

\* The pipeline, ctx cancellable.
Next ==
  \/ NextNC
  \/ Cancel
  \/ \E w \in Workers : BackendStop(w)

Spec == Init /\ [][Next]_vars

\* Go schedules every runnable goroutine and a select takes a ready case; the
\* backend is arbitrarily slow but not dead.
Fairness ==
  /\ WF_vars(Enter)
  /\ WF_vars(Return)
  /\ \A w \in Workers : WF_vars(Worker(w))
  /\ \A w \in Workers : WF_vars(Backend(w))

FairSpecNC == Init /\ [][NextNC]_vars /\ Fairness

FairSpec == Init /\ [][Next]_vars /\ Fairness

\* ------------------------------------------------------- prepareProgress

\* prepareProgress is configured: no sink, or a channel, unbuffered or with
\* one slot.  The deletion pipeline is not running.
InitP ==
  /\ DIdle
  /\ args = <<>>
  /\ qcap = removeCap
  /\ PIdle
  /\ \/ sink = "nil" /\ pcap = 0
     \/ sink = "chan" /\ pcap \in {0, 1}
  /\ AIdle
  /\ OIdle

\* Line 155: the call prepareProgress(progress).
PCall ==
  /\ ppc = "idle"
  /\ calls < MaxCalls
  /\ \E v \in Floats : pin' = v
  /\ calls' = calls + 1
  /\ ppc' = "check"
  /\ UNCHANGED <<sink, pcap, pbuf, recvWaiting, progress, delivered, dropped>>
  /\ UNCHANGED <<dvars, avars, ovars>>

\* Lines 156-159: return if the channel is nil, else clamp.
PCheck ==
  /\ ppc = "check"
  /\ IF sink = "nil"
       THEN ppc' = "idle" /\ UNCHANGED progress
       ELSE progress' = Clamp(pin) /\ ppc' = "select"
  /\ UNCHANGED <<sink, pcap, pbuf, recvWaiting, pin, calls, delivered, dropped>>
  /\ UNCHANGED <<dvars, avars, ovars>>

\* Mutant of PSelect: a plain send, without the default case.
PSelectBlocking ==
  /\ ppc = "select"
  /\ recvWaiting \/ Len(pbuf) < pcap
  /\ IF recvWaiting
       THEN /\ delivered' = Append(delivered, [in |-> pin, out |-> progress])
            /\ recvWaiting' = FALSE
            /\ UNCHANGED pbuf
       ELSE /\ pbuf' = Append(pbuf, [in |-> pin, out |-> progress])
            /\ UNCHANGED <<delivered, recvWaiting>>
  /\ ppc' = "idle"
  /\ UNCHANGED <<sink, pcap, pin, progress, calls, dropped>>
  /\ UNCHANGED <<dvars, avars, ovars>>

\* Mutant of PSelect: a sample that cannot be sent is kept for later instead
\* of being dropped.
PSelectQueues ==
  /\ ppc = "select"
  /\ IF recvWaiting
       THEN /\ delivered' = Append(delivered, [in |-> pin, out |-> progress])
            /\ recvWaiting' = FALSE
            /\ UNCHANGED pbuf
       ELSE /\ pbuf' = Append(pbuf, [in |-> pin, out |-> progress])
            /\ UNCHANGED <<delivered, recvWaiting>>
  /\ ppc' = "idle"
  /\ UNCHANGED <<sink, pcap, pin, progress, calls, dropped>>
  /\ UNCHANGED <<dvars, avars, ovars>>

\* Lines 160-163: select { case c.PrepareProgress <- progress: default: }.
\* The send is taken when a receiver is waiting or the buffer has room.
PSelect ==
  /\ ppc = "select"
  /\ IF recvWaiting
       THEN /\ delivered' = Append(delivered, [in |-> pin, out |-> progress])
            /\ recvWaiting' = FALSE
            /\ UNCHANGED <<pbuf, dropped>>
       ELSE IF Len(pbuf) < pcap
         THEN /\ pbuf' = Append(pbuf, [in |-> pin, out |-> progress])
              /\ UNCHANGED <<delivered, recvWaiting, dropped>>
         ELSE /\ dropped' = dropped + 1
              /\ UNCHANGED <<delivered, recvWaiting, pbuf>>
  /\ ppc' = "idle"
  /\ UNCHANGED <<sink, pcap, pin, progress, calls>>
  /\ UNCHANGED <<dvars, avars, ovars>>

\* The observer receives from the channel: a buffered sample at once, else it
\* waits for a sender.
ObsRecv ==
  /\ sink = "chan"
  /\ ~recvWaiting
  /\ IF pbuf # <<>>
       THEN /\ delivered' = Append(delivered, Head(pbuf))
            /\ pbuf' = Tail(pbuf)
            /\ UNCHANGED recvWaiting
       ELSE /\ recvWaiting' = TRUE
            /\ UNCHANGED <<delivered, pbuf>>
  /\ UNCHANGED <<sink, pcap, ppc, pin, progress, calls, dropped>>
  /\ UNCHANGED <<dvars, avars, ovars>>

\* The observer stops waiting (it does something else for a while).
ObsLeave ==
  /\ recvWaiting
  /\ recvWaiting' = FALSE
  /\ UNCHANGED <<sink, pcap, pbuf, ppc, pin, progress, calls, delivered, dropped>>
  /\ UNCHANGED <<dvars, avars, ovars>>

NextP ==
  \/ PCall
  \/ PCheck
  \/ PSelect
  \/ ObsRecv
  \/ ObsLeave

SpecProgress == InitP /\ [][NextP]_vars

\* ------------------------------------------- the Auto-Termination Analyzer

\* Throughputs a segment may have: a base rate and ten times it.
SegVals == {1, 10}
\* Tolerances tried for AutoTermScale: 0, 1/2, 13/4, 27/8, 71/8 and 9.
Scales == {<<0, 1>>, <<1, 2>>, <<13, 4>>, <<27, 8>>, <<71, 8>>, <<9, 1>>}

\* A run being analysed: autoTermSamples segments, the last autoTermCheck + 1
\* of them free, any AutoTermDur (0 is unset) and AutoTermScale.
InitA ==
  /\ DIdle
  /\ args = <<>>
  /\ qcap = removeCap
  /\ PIdle
  /\ sink = "nil"
  /\ pcap = 0
  /\ OIdle
  /\ segs \in {[i \in 1..autoTermSamples |->
                  IF i <= autoTermSamples - 8 THEN 1
                  ELSE t[i - (autoTermSamples - 8)]] : t \in [1..8 -> SegVals]}
  /\ elapsed = 0
  /\ atDur \in 0..(MaxElapsed - 1)
  /\ atScale \in Scales
  /\ lastCheck = -1
  /\ stopped = FALSE
  /\ speed = 0

\* Mutant of AutoTermEnabled: the Analyzer runs whatever AutoTermDur is.
AutoTermAlways == TRUE

\* Auto termination is set when this is > 0.
AutoTermEnabled == atDur > 0

\* The most recent autoTermCheck segments.
Trailing == SubSeq(segs, autoTermSamples - autoTermCheck + 1, autoTermSamples)

SeqSum(q) ==
  LET S[i \in 0..Len(q)] == IF i = 0 THEN 0 ELSE S[i - 1] + q[i]
  IN S[Len(q)]

Abs(x) == IF x < 0 THEN 0 - x ELSE x

\* The maximum relative deviation of the window's values from their mean is
\* at most scale: |x - sum/n| / (sum/n) <= num/den for every x, that is
\* |n*x - sum| * den <= num * sum.
Steady(win, scale) ==
  \A i \in 1..Len(win) :
    Abs(Len(win) * win[i] - SeqSum(win)) * scale[2] <= scale[1] * SeqSum(win)

\* Active time passes while the benchmark runs.
ATick ==
  /\ ~stopped
  /\ elapsed < MaxElapsed
  /\ elapsed' = elapsed + 1
  /\ UNCHANGED <<segs, atDur, atScale, lastCheck, stopped, speed>>
  /\ UNCHANGED <<dvars, pvars, ovars>>

\* The Analyzer evaluates the run: once AutoTermDur has elapsed and the
\* trailing segments are steady it signals stop and reports the last
\* segment's throughput; otherwise it keeps accumulating.
Analyze ==
  /\ AutoTermEnabled
  /\ ~stopped
  /\ lastCheck < elapsed
  /\ lastCheck' = elapsed
  /\ IF elapsed >= atDur /\ Steady(Trailing, atScale)
       THEN stopped' = TRUE /\ speed' = segs[autoTermSamples]
       ELSE UNCHANGED <<stopped, speed>>
  /\ UNCHANGED <<segs, elapsed, atDur, atScale>>
  /\ UNCHANGED <<dvars, pvars, ovars>>

NextA ==
  \/ ATick
  \/ Analyze

SpecAnalyzer == InitA /\ [][NextA]_vars


\* ------------------------------------------------ the Benchmark Orchestrator

\* A run of one variant: nothing called yet, with or without Clear, in client
\* mode or not.
InitO ==
  /\ DIdle
  /\ args = <<>>
  /\ qcap = removeCap
  /\ PIdle
  /\ sink = "nil"
  /\ pcap = 0
  /\ AIdle
  /\ ost = "Idle"
  /\ prepares = 0
  /\ starts = 0
  /\ cleanups = 0
  /\ cleanupFailed = FALSE
  /\ result = "none"
  /\ clear \in BOOLEAN
  /\ clientMode \in BOOLEAN
  /\ startSignal = FALSE
  /\ cleaning = FALSE
  /\ pipelineRuns = 0
  /\ ops = 0

\* Prepare(ctx) is called.
OPrepare ==
  /\ ost = "Idle"
  /\ ost' = "Preparing"
  /\ prepares' = prepares + 1
  /\ UNCHANGED <<starts, cleanups, cleanupFailed, result, clear, clientMode,
                 startSignal, cleaning, pipelineRuns, ops>>
  /\ UNCHANGED <<dvars, pvars, avars>>

\* Prepare reports its progress; with no PrepareProgress channel the call is
\* a no-op.
OReport ==
  /\ ost = "Preparing"
  /\ sink = "nil"
  /\ calls < MaxCalls
  /\ calls' = calls + 1
  /\ UNCHANGED <<sink, pcap, pbuf, recvWaiting, ppc, pin, progress,
                 delivered, dropped>>
  /\ UNCHANGED <<dvars, avars, ovars>>

\* Prepare completes.
OPrepareOk ==
  /\ ost = "Preparing"
  /\ ost' = "Ready"
  /\ UNCHANGED <<prepares, starts, cleanups, cleanupFailed, result, clear,
                 clientMode, startSignal, cleaning, pipelineRuns, ops>>
  /\ UNCHANGED <<dvars, pvars, avars>>

\* Prepare returns an error, which aborts the run.
OPrepareErr ==
  /\ ost = "Preparing"
  /\ ost' = "Failed"
  /\ result' = "failure"
  /\ UNCHANGED <<prepares, starts, cleanups, cleanupFailed, clear,
                 clientMode, startSignal, cleaning, pipelineRuns, ops>>
  /\ UNCHANGED <<dvars, pvars, avars>>

\* Start(ctx, wait) is called.
OStart ==
  /\ ost = "Ready"
  /\ ost' = "Running"
  /\ starts' = starts + 1
  /\ UNCHANGED <<prepares, cleanups, cleanupFailed, result, clear,
                 clientMode, startSignal, cleaning, pipelineRuns, ops>>
  /\ UNCHANGED <<dvars, pvars, avars>>

\* The start channel is closed: by the coordinator of the peers at any time
\* in client mode, by the orchestrator once Start runs otherwise.
OCloseStart ==
  /\ ~startSignal
  /\ clientMode \/ ost = "Running"
  /\ startSignal' = TRUE
  /\ UNCHANGED <<ost, prepares, starts, cleanups, cleanupFailed, result,
                 clear, clientMode, cleaning, pipelineRuns, ops>>
  /\ UNCHANGED <<dvars, pvars, avars>>

\* Cleanup(ctx) is called; with Clear set it runs the deletion pipeline.
CallCleanup ==
  /\ cleanups' = cleanups + 1
  /\ cleaning' = TRUE
  /\ pipelineRuns' = IF clear THEN pipelineRuns + 1 ELSE pipelineRuns

\* Start returns the Operations of the workload, which ran once the start
\* channel was closed; Cleanup follows.
OStartOk(n) ==
  /\ ost = "Running"
  /\ startSignal
  /\ ost' = "CleaningUp"
  /\ ops' = n
  /\ result' = "success"
  /\ CallCleanup
  /\ UNCHANGED <<prepares, starts, cleanupFailed, clear, clientMode,
                 startSignal>>
  /\ UNCHANGED <<dvars, pvars, avars>>

\* Start returns an error; Cleanup follows all the same.
OStartErr ==
  /\ ost = "Running"
  /\ ost' = "Failed"
  /\ result' = "failure"
  /\ CallCleanup
  /\ UNCHANGED <<prepares, starts, cleanupFailed, clear, clientMode,
                 startSignal, ops>>
  /\ UNCHANGED <<dvars, pvars, avars>>

\* Cleanup returns.
OCleanupOk ==
  /\ cleaning
  /\ cleaning' = FALSE
  /\ ost' = IF ost = "CleaningUp" THEN "Done" ELSE ost
  /\ UNCHANGED <<prepares, starts, cleanups, cleanupFailed, result, clear,
                 clientMode, startSignal, pipelineRuns, ops>>
  /\ UNCHANGED <<dvars, pvars, avars>>

\* Mutant of OCleanupErr: an error met during Cleanup becomes the run's
\* outcome.
OCleanupErrPropagates ==
  /\ cleaning
  /\ cleaning' = FALSE
  /\ cleanupFailed' = TRUE
  /\ result' = "failure"
  /\ ost' = IF ost = "CleaningUp" THEN "Done" ELSE ost
  /\ UNCHANGED <<prepares, starts, cleanups, clear, clientMode,
                 startSignal, pipelineRuns, ops>>
  /\ UNCHANGED <<dvars, pvars, avars>>

\* Cleanup meets an error: it is logged, not propagated.
OCleanupErr ==
  /\ cleaning
  /\ cleaning' = FALSE
  /\ cleanupFailed' = TRUE
  /\ ost' = IF ost = "CleaningUp" THEN "Done" ELSE ost
  /\ UNCHANGED <<prepares, starts, cleanups, result, clear, clientMode,
                 startSignal, pipelineRuns, ops>>
  /\ UNCHANGED <<dvars, pvars, avars>>

NextO ==
  \/ OPrepare
  \/ OReport
  \/ OPrepareOk
  \/ OPrepareErr
  \/ OStart
  \/ OCloseStart
  \/ \E n \in 0..MaxOps : OStartOk(n)
  \/ OStartErr
  \/ OCleanupOk
  \/ OCleanupErr

SpecLifecycle == InitO /\ [][NextO]_vars

\* ------------------------------------------------------------------ claims

\* The workers the call started.
Started == {w \in Workers : pc[w] # "none"}
\* Handles acquired and not yet released.
Outstanding(w) == acq[w] - rel[w]
SumOver(f) ==
  LET S[i \in 0..MaxWorkers] == IF i = 0 THEN 0 ELSE S[i - 1] + f[i]
  IN S[MaxWorkers]
\* The objects under the union of the prefixes.
UnderPrefixes ==
  {o \in BucketInit : \E i \in 1..Len(prefixes) : HasPrefix(o.Key, prefixes[i])}

\* Worker w's pipeline can take a step: neither the worker nor its backend
\* is blocked for ever.
CanProgress(w) == ENABLED (Worker(w) \/ Backend(w))

\* C1: with a backend that interleaves completion errors with slow accepts
\* (queue capacity 1 included), no worker that has not finished is ever stuck
\* together with its backend, and under weak fairness the call returns.
C1_ReclaimTerminates ==
  /\ [](\A w \in Workers : pc[w] \in {"none", "exit"} \/ CanProgress(w))
  /\ <>(pcMain = "returned")

\* C1 witness: the adversarial state itself: the capacity-1 queue is full, the
\* worker holds the next identity, and the backend is blocked delivering an
\* error instead of accepting.
C1_Witness ==
  \E w \in Workers :
    /\ qcap = TestCap
    /\ pc[w] = "sendNext"
    /\ Len(remove[w]) = qcap
    /\ ErrReady(w)

\* C2 (as claimed): once ctx is cancelled, every worker unwinds and the call
\* returns, wherever the workers are.
C2_CancelUnwinds == cancelled ~> (pcMain = "returned")

\* C3: every worker acquires one handle and releases it once; outstanding
\* handles never exceed the number of prefixes; none is outstanding once the
\* call has returned.
C3_NoHandleLeak ==
  /\ \A w \in Workers : acq[w] <= 1 /\ rel[w] <= acq[w]
  /\ \A w \in Workers : pc[w] = "exit" => acq[w] = 1 /\ rel[w] = 1
  /\ SumOver([w \in Workers |-> Outstanding(w)]) <= Len(prefixes)
  /\ pcMain = "returned" => \A w \in Workers : Outstanding(w) = 0

\* C3 witness: the call returned after cancellation with two workers, each
\* having acquired and released its handle.
C3_Witness ==
  /\ pcMain = "returned"
  /\ cancelled
  /\ Len(prefixes) = 2
  /\ \A w \in Workers : w <= 2 => acq[w] = 1 /\ rel[w] = 1

\* C4 (as claimed): when the call returns without cancellation, every worker's
\* listing is exhausted, its delivery queue closed, and its completion channel
\* drained until the backend closed it: no outcome is pending undelivered.
C4_ReturnsAfterDrain ==
  (pcMain = "returned" /\ ~cancelled) =>
    \A w \in Started :
      /\ listing[w] = <<>>
      /\ removeClosed[w]
      /\ pending[w] = <<>>
      /\ ErrClosed(w)

\* C5 (as claimed): N prefixes run N workers, and when the call returns
\* without cancellation every object under the prefixes is removed, except
\* those whose delete the backend failed.
C5_AllRemoved ==
  (pcMain = "returned" /\ ~cancelled) =>
    /\ Cardinality(Started) = Len(prefixes)
    /\ \A o \in UnderPrefixes : o \notin bucket \/ o \in failedDel

\* C6 (as claimed): every failed delete is received by its worker and
\* reported: once the call has returned without cancellation, as many delete
\* errors were reported as deletes failed.
C6_FailedDeletesReported ==
  (pcMain = "returned" /\ ~cancelled) =>
    SumOver(delReports) = Cardinality(failedDel)

\* C7: a listing entry carrying an error is reported once, enqueues nothing,
\* leaves the worker in its loop at the next entry; the worker leaves the
\* loop only when the listing is closed.
C7_ListErrSkipped ==
  [][\A w \in Workers :
       /\ listErrLeft'[w] < listErrLeft[w] =>
            /\ listReports'[w] = listReports[w] + 1
            /\ pc[w] = "loop" /\ pc'[w] = "loop"
            /\ remove'[w] = remove[w]
            /\ enq'[w] = enq[w]
            /\ listing'[w] = listing[w]
       /\ listReports'[w] # listReports[w] => listErrLeft'[w] = listErrLeft[w] - 1
       /\ (pc[w] = "loop" /\ pc'[w] \notin {"loop", "sendNext"}) =>
            /\ pc'[w] = "closeRemove"
            /\ listing[w] = <<>> \/ cancelled
            /\ listReports'[w] = listReports[w]]_vars

\* C7 witness: a listing error was reported before anything was enqueued, and
\* the worker went on to take the next entry.
C7_Witness ==
  \E w \in Workers :
    /\ listReports[w] = 1
    /\ enq[w] = <<>>
    /\ pc[w] = "sendNext"

\* C8: the call with zero prefixes takes exactly the step the call with the
\* single prefix "" takes: one worker, listing the whole bucket.  No later
\* step reads the argument list, so the two calls behave alike from there.
C8_ZeroPrefixesIsEmptyPrefix ==
  [][(pcMain = "entry" /\ pcMain' # "entry" /\ args = <<>>) =>
       /\ EnterWith(<<"">>)
       /\ Cardinality({w \in Workers : pc'[w] = "start"}) = 1
       /\ ListObjects(prefixes'[1]) = BucketSeq]_vars

\* C8 witness: a call with zero prefixes returned, its one worker having
\* emptied the whole bucket.
C8_Witness ==
  /\ args = <<>>
  /\ pcMain = "returned"
  /\ Started = {1}
  /\ bucket = {}

\* C9: a step of the watchdog (its timer firing, or its seeing `finished`)
\* changes nothing but the watchdog: ctx, the caller, every worker, queue and
\* completion channel are as before.
C9_WatchdogObservational ==
  [][(wd = "waiting" /\ wd' # wd) =>
       /\ cancelled' = cancelled
       /\ UNCHANGED mainVars
       /\ UNCHANGED workerVars
       /\ UNCHANGED backendVars]_vars

\* C9 witness: the watchdog dumped while workers were running, and the call
\* went on to return without cancellation.
C9_Witness ==
  /\ wd = "dumped"
  /\ pcMain = "returned"
  /\ ~cancelled
  /\ bucket = {}

\* The interval [0, 1].
InUnit(x) == x.k = "fin" /\ 0 <= x.n /\ x.n <= Unit
\* max(0, min(1, v)) as the claim reads it: below 0 gives 0, above 1 gives 1,
\* anything else is unchanged.
ClampClaimed(v) ==
  IF FLess(v, Fin(0)) THEN Fin(0)
  ELSE IF FLess(Fin(Unit), v) THEN Fin(Unit)
  ELSE v

\* C10 (as claimed): every delivered sample equals max(0, min(1, v)) of the
\* call's input v and lies in [0, 1].
C10_DeliveredClamped ==
  \A i \in 1..Len(delivered) :
    /\ delivered[i].out = ClampClaimed(delivered[i].in)
    /\ InUnit(delivered[i].out)

\* C11: prepareProgress never waits: whatever the sink (nil, no receiver,
\* full buffer), the step the call is at is enabled, each step moves the call
\* forward (check, then select, then return), and with a nil sink the call
\* returns from the check without sending, buffering or dropping anything.
C11_NeverBlocks ==
  /\ [](/\ ppc = "check" => ENABLED PCheck
        /\ ppc = "select" => ENABLED PSelect
        /\ sink = "nil" => /\ ppc # "select"
                           /\ delivered = <<>> /\ pbuf = <<>> /\ dropped = 0)
  /\ [][/\ ppc = "check" => ppc' \in {"check", "select", "idle"}
        /\ ppc = "select" => ppc' \in {"select", "idle"}
        /\ (ppc = "check" /\ ppc' = "select") => sink # "nil"]_vars

\* C11 witness: a call returned although the sink was full and nobody was
\* receiving.
C11_Witness ==
  /\ ppc = "idle"
  /\ dropped >= 1
  /\ ~recvWaiting
  /\ pcap = 1
  /\ Len(pbuf) = 1

\* C12 (as claimed): for any sink, a sample sent while no receiver is ready
\* is dropped: it is not held in the channel to be delivered later.
C12_DroppedIfNoReceiver ==
  [][(ppc = "select" /\ ppc' = "idle" /\ ~recvWaiting) =>
       /\ dropped' = dropped + 1
       /\ pbuf' = pbuf
       /\ delivered' = delivered]_vars

\* C12 (amended): each call makes one delivery attempt with one outcome
\* (handed to a waiting receiver, put in a free buffer slot, or dropped) and
\* no retry; a sample is dropped exactly when no receiver is waiting and the
\* channel has no free slot, so an unbuffered sink never holds a sample and a
\* buffered one holds at most its capacity.
C12_LossyOneAttempt ==
  /\ [](/\ Len(pbuf) <= pcap
        /\ sink = "chan" =>
             Len(delivered) + Len(pbuf) + dropped
               + (IF ppc = "idle" THEN 0 ELSE 1) = calls)
  /\ [][(ppc = "select" /\ ppc' = "idle") =>
          IF recvWaiting
            THEN Len(delivered') = Len(delivered) + 1
                 /\ pbuf' = pbuf /\ dropped' = dropped
          ELSE IF Len(pbuf) < pcap
            THEN Len(pbuf') = Len(pbuf) + 1
                 /\ delivered' = delivered /\ dropped' = dropped
          ELSE dropped' = dropped + 1
               /\ pbuf' = pbuf /\ delivered' = delivered]_vars

\* C12 witness: with an unbuffered sink and no receiver every sample of the
\* run was dropped and none was delivered.
C12_Witness ==
  /\ pcap = 0
  /\ sink = "chan"
  /\ ppc = "idle"
  /\ dropped = calls
  /\ calls >= 2
  /\ delivered = <<>>

\* The claim's window: the trailing 7 of the 25 segments.
Last7 == SubSeq(segs, 19, 25)
\* a < b on rationals <<num, den>> (den > 0).
RatLess(a, b) == a[1] * b[2] < b[1] * a[2]

\* C13: when the Analyzer evaluates 25 segments whose trailing 7 are all
\* within autoTermScale of their mean, with elapsed >= autoTermDuration > 0,
\* it signals stop and reports the throughput of the last (7th) segment.
C13_SteadyStops ==
  [][(/\ lastCheck' # lastCheck
      /\ Len(segs) = 25
      /\ atDur > 0
      /\ elapsed >= atDur
      /\ \A i \in 1..7 :
           Abs(7 * Last7[i] - SeqSum(Last7)) * atScale[2]
             <= atScale[1] * SeqSum(Last7))
     => (stopped' /\ speed' = segs[25])]_vars

\* C13 witness: the Analyzer stopped a run whose last segment is fast and
\* whose segment before it is slow, and reported the last one.
C13_Witness ==
  /\ stopped
  /\ segs[25] = 10
  /\ segs[24] = 1
  /\ speed = 10
  /\ lastCheck >= atDur

\* One of the trailing 7 segments has 10 times the throughput of the other
\* six, which are equal.
OneOutlier ==
  /\ Len(segs) = 25
  /\ \E i \in 19..25 :
       /\ \A j \in 19..25 : j # i => segs[j] = segs[(IF i = 19 THEN 20 ELSE 19)]
       /\ segs[i] = 10 * segs[(IF i = 19 THEN 20 ELSE 19)]
       /\ segs[i] > 0

\* C14 (as claimed): with one trailing segment at 10 times the other six, no
\* stop is signalled for any autoTermScale < 9.
C14_OutlierBelowNine ==
  (OneOutlier /\ RatLess(atScale, <<9, 1>>)) => ~stopped

\* C14 (amended): with one trailing segment at 10 times the other six, no
\* stop is signalled for any autoTermScale < 27/8 = 3.375, the outlier's
\* relative deviation from the mean of the 7.
C14_OutlierBelowDeviation ==
  (OneOutlier /\ RatLess(atScale, <<27, 8>>)) => ~stopped

\* C14 witness: the Analyzer evaluated such a window after autoTermDuration
\* with autoTermScale = 13/4 and did not signal stop.
C14_Witness ==
  /\ OneOutlier
  /\ atScale = <<13, 4>>
  /\ atDur > 0
  /\ lastCheck >= atDur
  /\ ~stopped

\* C15: a stop signal is only ever emitted with AutoTermDur > 0 and at an
\* evaluation made once AutoTermDur had elapsed; with AutoTermDur zero the
\* Analyzer never evaluates at all.
C15_NoEarlyStop ==
  /\ stopped => (atDur > 0 /\ lastCheck >= atDur /\ elapsed >= atDur)
  /\ atDur = 0 => (lastCheck = -1 /\ ~stopped)

\* C15 witness: the Analyzer evaluated perfectly stable segments before
\* autoTermDuration had elapsed and did not signal stop.
C15_Witness ==
  /\ Len(segs) = 25
  /\ \A i \in 19..25 : segs[i] = segs[25]
  /\ elapsed >= 1
  /\ elapsed < atDur
  /\ lastCheck = elapsed
  /\ ~stopped

\* The orchestrator's moves along the lifecycle.
LifecycleMoves ==
  {<<"Idle", "Preparing">>, <<"Preparing", "Ready">>, <<"Ready", "Running">>,
   <<"Running", "CleaningUp">>, <<"CleaningUp", "Done">>,
   <<"Preparing", "Failed">>, <<"Running", "Failed">>}

\* C16: Start is invoked only after Prepare completed without error; after a
\* Prepare error neither Start nor Cleanup follows; Cleanup is invoked exactly
\* once after every Start attempt, whether Start succeeded or failed; the
\* outcome is fixed by Prepare/Start and never changed by Cleanup; and the
\* orchestrator only moves along Idle -> Preparing -> Ready -> Running ->
\* CleaningUp -> Done or into Failed from Preparing or Running.
C16_LifecycleOrder ==
  /\ [](/\ prepares <= 1 /\ starts <= prepares /\ cleanups <= starts
        /\ (starts = 1 /\ ost # "Running") => cleanups = 1
        /\ ost = "Running" => cleanups = 0
        /\ (ost = "Failed" /\ starts = 0) => (cleanups = 0 /\ ~cleaning)
        /\ result = "success" <=> ost \in {"CleaningUp", "Done"}
        /\ result = "failure" <=> ost = "Failed"
        /\ ost = "Done" => ~cleaning)
  /\ [][/\ ost' # ost => <<ost, ost'>> \in LifecycleMoves
        /\ starts' # starts => (ost = "Ready" /\ prepares = 1)
        /\ cleanups' # cleanups => (ost = "Running" /\ cleanups' = 1)
        /\ result # "none" => result' = result]_vars

\* C16 witness: a run whose Start failed and whose single Cleanup then met an
\* error of its own has ended, still a failure of Start.
C16_Witness ==
  /\ ost = "Failed"
  /\ starts = 1
  /\ cleanups = 1
  /\ ~cleaning
  /\ cleanupFailed
  /\ result = "failure"
  /\ clear
  /\ pipelineRuns = 1

\* C17: a worker holding a listed identity it has not yet enqueued is in the
\* send loop's select, where both the send on remove (when there is room) and
\* the receive from errCh (when the backend is blocked delivering, or errCh
\* is closed) can be taken: it is never blocked on a full queue alone while
\* its backend is blocked sending; and servicing a completion there leaves the
\* worker in the send loop with the same identity.
C17_DualWait ==
  /\ [](\A w \in Workers :
          /\ cur[w] # <<>> <=> pc[w] = "sendNext"
          /\ (pc[w] = "sendNext" /\ Len(remove[w]) < qcap) => ENABLED WSend(w)
          /\ (pc[w] = "sendNext" /\ ErrReady(w)) => ENABLED WRecvErrSend(w)
          /\ (pc[w] = "sendNext" /\ Len(remove[w]) = qcap /\ ErrReady(w)) =>
               ENABLED Worker(w))
  /\ [][\A w \in Workers :
          (/\ pc[w] = "sendNext"
           /\ delReports'[w] # delReports[w] \/ zeroReports'[w] # zeroReports[w]) =>
            /\ pc'[w] = "sendNext"
            /\ cur'[w] = cur[w]
            /\ remove'[w] = remove[w]
            /\ enq'[w] = enq[w]]_vars

\* C17 witness: a worker still holds its identity in front of the full
\* capacity-1 queue after it serviced a completion, and its backend is no
\* longer blocked.
C17_Witness ==
  \E w \in Workers :
    /\ qcap = TestCap
    /\ pc[w] = "sendNext"
    /\ Len(remove[w]) = qcap
    /\ delReports[w] >= 1
    /\ bpc[w] = "collect"
    /\ ~cancelled

\* The identity (key, versionID) of an object or listing entry.
Ident(o) == [Key |-> o.Key, VersionID |-> o.VersionID]
IdentSeq(q) == [i \in 1..Len(q) |-> Ident(q[i])]
\* What worker w's listing stream delivers, in order.
Listed(w) ==
  IdentSeq(SelectSeq(BucketSeq, LAMBDA o : HasPrefix(o.Key, prefixes[w])))

\* C18: what a worker has enqueued, followed by the identity it is sending and
\* by what it has not yet read from its listing, is exactly its listing: each
\* identity is enqueued after it was listed, once, unchanged and in listing
\* order; and what is in the queue is the tail of what was enqueued.
C18_ListBeforeDelete ==
  \A w \in Started :
    pc[w] # "start" =>
      /\ enq[w] \o cur[w] \o IdentSeq(listing[w]) = Listed(w)
      /\ Len(cur[w]) <= 1
      /\ Len(remove[w]) <= Len(enq[w])
      /\ remove[w] = SubSeq(enq[w], Len(enq[w]) - Len(remove[w]) + 1, Len(enq[w]))

\* C18 witness: a worker enqueued its whole three-object listing through the
\* capacity-1 queue, servicing a completion on the way.
C18_Witness ==
  \E w \in Started :
    /\ qcap = TestCap
    /\ Len(enq[w]) = Len(BucketSeq)
    /\ enq[w] = Listed(w)
    /\ delReports[w] >= 1

\* C19: a worker closes its delivery queue at most once, and once when it has
\* exited; the queue is closed only after the worker left its listing loop,
\* holding no identity, so nothing is sent or closed again on the closed
\* queue; and the queue never holds more than its capacity, at most 100.
C19_CloseDiscipline ==
  \A w \in Workers :
    /\ closes[w] <= 1
    /\ removeClosed[w] <=> closes[w] = 1
    /\ pc[w] = "exit" => closes[w] = 1
    /\ removeClosed[w] =>
         /\ pc[w] \notin {"none", "start", "loop", "sendNext", "closeRemove"}
         /\ cur[w] = <<>>
         /\ ~ENABLED WSend(w)
         /\ ~ENABLED WCloseRemove(w)
    /\ Len(remove[w]) <= qcap
    /\ qcap <= 100

\* C19 witness: a worker closed its capacity-1 queue while the queue was full,
\* after reading its listing to the end.
C19_Witness ==
  \E w \in Workers :
    /\ qcap = TestCap
    /\ removeClosed[w]
    /\ closes[w] = 1
    /\ Len(remove[w]) = qcap
    /\ listing[w] = <<>>
    /\ ~cancelled

\* C20 (as claimed): a worker reports no more delete errors than its backend
\* had failed deletes to emit; a closed errCh is never reported.
C20_NoSpuriousReports ==
  \A w \in Started :
    /\ zeroReports[w] = 0
    /\ delReports[w] + zeroReports[w] <=
         Cardinality({o \in failedDel : HasPrefix(o.Key, prefixes[w])})

====
